---- MODULE Spec2Model ----
(***************************************************************************)
(* A model of the execution substrate of lean-coding-template:             *)
(*   - environment/bash_session.py: _BashSession and BashSessionManager,   *)
(*     driven by the /bash endpoint of environment/server.py;              *)
(*   - environment/grading.py: GradingRunner.run_grading and               *)
(*     GradingRunner.validate_patches.                                     *)
(* The asyncio event loop is cooperative: one action is the code a task    *)
(* runs between two suspension points (await).                             *)
(***************************************************************************)
EXTENDS Integers, Sequences, FiniteSets, TLC

VARIABLES
    _session,   \* BashSessionManager._session: 0 is None, else a session id
    session,    \* the _BashSession objects constructed so far (a sequence)
    process,    \* session[s]._process: the shell and its three pipes
    task,       \* one record per concurrent /bash request (a coroutine)
    result,     \* what each request's last execute call returned or raised
    tmpfiles,   \* the overflow logs written by tempfile.NamedTemporaryFile
    ncalls,     \* execute calls issued so far
    audit,      \* history, read by the properties only (see NoAudit)
    gpc,        \* GradingRunner: the stage the workflow is at
    workflow,   \* GradingRunner: "none", "run_grading" or "validate_patches"
    ops,        \* GradingRunner: the external commands run on the workspace
    test_patch, \* GradingRunner: what /home/root/test.patch changes
    workspace,  \* GradingRunner: how grade_working_dir differs from baseline
    gresult,    \* GradingRunner: the (success, report) returned, or the error
    grade,      \* the Grade object whose score is asked for
    score,      \* what Grade.score returned or raised
    build       \* run_grading's build stage: the process, its pipes, the readers

svars == <<_session, session, process, task, result, tmpfiles, ncalls, audit>>
gvars == <<gpc, workflow, ops, test_patch, workspace, gresult>>
xvars == <<grade, score, build>>
vars == <<_session, session, process, task, result, tmpfiles, ncalls, audit,
          gpc, workflow, ops, test_patch, workspace, gresult,
          grade, score, build>>

----------------------------------------------------------------------------
(* Bounds of the model *)

NCallers == 2        \* /bash requests that may be in flight together
MaxSessions == 2     \* _BashSession objects constructed in one behaviour
MaxCalls == 3        \* execute calls issued in one behaviour

\* _BashSession._output_delay and _BashSession._timeout in a short test
\* configuration (the class attributes are 0.2 and 30.0 seconds): the poll
\* loop sleeps _output_delay at a time and the deadline falls _timeout after
\* the loop is entered.
_output_delay == 1
_timeout == 3

Callers == 1..NCallers
None == "None"

----------------------------------------------------------------------------
(* Text: a sequence of characters; a multi-character word that is never    *)
(* split stands as one element.                                            *)

NL == "\n"
_sentinel == <<"<<exit", ">>">>

\* s[i..] starts with pat
StartsAt(s, pat, i) ==
    /\ i + Len(pat) - 1 <= Len(s)
    /\ \A k \in 1..Len(pat) : s[i + k - 1] = pat[k]

\* pat in s
Contains(s, pat) == \E i \in 1..(Len(s) + 1) : StartsAt(s, pat, i)

\* s.index(pat), 1-based; only used where Contains(s, pat)
Index(s, pat) ==
    CHOOSE i \in 1..(Len(s) + 1) :
        /\ StartsAt(s, pat, i)
        /\ \A j \in 1..(i - 1) : ~StartsAt(s, pat, j)

\* output[: output.index(self._sentinel)]
BeforeSentinel(output) == SubSeq(output, 1, Index(output, _sentinel) - 1)

\* if text.endswith("\n"): text = text[:-1]
StripNewline(text) ==
    IF Len(text) > 0 /\ text[Len(text)] = NL
    THEN SubSeq(text, 1, Len(text) - 1)
    ELSE text

PreviewLimit == 10000

\* Truncate that clips a text of exactly the limit
TruncateFromLimit(text) ==
    IF Len(text) >= PreviewLimit
    THEN SubSeq(text, 1, PreviewLimit) \o <<"<response clipped>">>
    ELSE text

\* text[:10000] + "<response clipped>" if len(text) > 10000 else text
Truncate(text) ==
    IF Len(text) > PreviewLimit
    THEN SubSeq(text, 1, PreviewLimit) \o <<"<response clipped>">>
    ELSE text

----------------------------------------------------------------------------
(* Results and errors of a call *)

NoResult == [kind |-> "none"]

CLIResult(output, error) ==
    [kind |-> "CLIResult", output |-> output, error |-> error]

ToolResult(system, error) ==
    [kind |-> "ToolResult", system |-> system, error |-> error]

\* An exception: its class and its message.  A message is its fixed text,
\* the overflow-file paths it embeds and the previews it embeds.
Message(text, paths, previews) ==
    [text |-> text, paths |-> paths, previews |-> previews]

ToolError(message) == [kind |-> "ToolError", message |-> message]

OtherError(class) ==
    [kind |-> class, message |-> Message(class, <<>>, <<>>)]

NotStartedMessage == Message("Session has not started.", <<>>, <<>>)
NoCommandMessage == Message("no command provided.", <<>>, <<>>)
TimedOutText == "timed out: bash has not returned and must be restarted."
RestartedResult == ToolResult("tool has been restarted.", <<>>)

\* The classes "except Exception" catches: ToolError and the errors of the
\* file system are all Exception subclasses.
IsException(e) == e.kind \in {"ToolError", "OSError", "UnboundLocalError"}

----------------------------------------------------------------------------
(* The shell: what each command line makes /bin/bash do.  A command line   *)
(* is "<command>; echo '<<exit>>'\n": the shell runs the command and then  *)
(* echoes the sentinel, unless the command made it exit.                   *)

\* What "yes | head -c n" prints: n characters, "y" and newline in turn
Yes(n) == [i \in 1..n |-> IF i % 2 = 1 THEN "y" ELSE NL]

Commands ==
    {"echo hi", "ls nofile", "exit", "cat bash_session.py", "echo '<<exit>>'"}

\* What the command writes to stdout and stderr, whether it ends the shell,
\* whether the command text itself spells the sentinel, and whether the shell
\* runs it as a child process that it waits for (the others are over at
\* once).
CommandEffect(command) ==
    CASE command = "echo hi" ->
            [out |-> <<"hi", NL>>, err |-> <<>>, exits |-> FALSE,
             literal |-> FALSE, forks |-> FALSE]
      [] command = "ls nofile" ->
            [out |-> <<>>, err |-> <<"no such file", NL>>, exits |-> FALSE,
             literal |-> FALSE, forks |-> FALSE]
      [] command = "exit" ->
            [out |-> <<>>, err |-> <<>>, exits |-> TRUE,
             literal |-> FALSE, forks |-> FALSE]
      [] command = "cat bash_session.py" ->
            [out |-> <<"s", "<<exit", ">>", NL>>, err |-> <<>>,
             exits |-> FALSE, literal |-> FALSE, forks |-> FALSE]
      [] command = "sleep 100" ->
            [out |-> <<>>, err |-> <<>>, exits |-> FALSE,
             literal |-> FALSE, forks |-> TRUE]
      [] command = "yes | head -c 9999" ->
            [out |-> Yes(PreviewLimit - 1), err |-> <<>>, exits |-> FALSE,
             literal |-> FALSE, forks |-> FALSE]
      [] command = "yes | head -c 10000" ->
            [out |-> Yes(PreviewLimit), err |-> <<>>, exits |-> FALSE,
             literal |-> FALSE, forks |-> FALSE]
      [] command = "yes | head -c 10001" ->
            [out |-> Yes(PreviewLimit + 1), err |-> <<>>, exits |-> FALSE,
             literal |-> FALSE, forks |-> FALSE]
      [] command = "yes | head -c 10000 >&2" ->
            [out |-> <<>>, err |-> Yes(PreviewLimit), exits |-> FALSE,
             literal |-> FALSE, forks |-> FALSE]
      [] command = "yes | head -c 10001 >&2" ->
            [out |-> <<>>, err |-> Yes(PreviewLimit + 1), exits |-> FALSE,
             literal |-> FALSE, forks |-> FALSE]
      [] command = "yes | head -c 10000; yes | head -c 10001 >&2" ->
            [out |-> Yes(PreviewLimit), err |-> Yes(PreviewLimit + 1),
             exits |-> FALSE, literal |-> FALSE, forks |-> FALSE]
      [] command = "yes | head -c 10001; yes | head -c 9999 >&2" ->
            [out |-> Yes(PreviewLimit + 1), err |-> Yes(PreviewLimit - 1),
             exits |-> FALSE, literal |-> FALSE, forks |-> FALSE]
      [] command = "echo '<<exit>>'" ->
            [out |-> <<"<<exit", ">>", NL>>, err |-> <<>>,
             exits |-> FALSE, literal |-> TRUE, forks |-> FALSE]

----------------------------------------------------------------------------
(* _BashSession *)

\* _BashSession.__init__, and the two class attributes an instance reads as
\* self._output_delay and self._timeout
NewSession ==
    [_started |-> FALSE, _timed_out |-> FALSE,
     _output_delay |-> _output_delay, _timeout |-> _timeout]

\* The process a session will own.  spawned is FALSE until
\* create_subprocess_shell has returned; exited stands for
\* "returncode is not None"; signalled says SIGTERM was sent to the shell.
\* child says a command the shell started is running in its process group,
\* child_signalled that SIGTERM was sent to that command.
NewProcess ==
    [spawned |-> FALSE, exited |-> FALSE, returncode |-> 0,
     signalled |-> FALSE, phase |-> "read",
     child |-> FALSE, child_signalled |-> FALSE,
     stdin |-> <<>>, stdout_buffer |-> <<>>, stderr_buffer |-> <<>>]

IdleTask ==
    [pc |-> "idle", method |-> None, command |-> None, restart |-> FALSE,
     starting |-> 0, self |-> 0,
     polled |-> FALSE, output |-> <<>>, error |-> <<>>, elapsed |-> 0,
     after_timeout |-> FALSE, found_exited |-> FALSE,
     found_unstarted |-> FALSE, wrote |-> FALSE,
     logs |-> {}]

\* The history the properties read; no action's guard or effect on the
\* program's state depends on it.
\*   timed_out_on: the sessions on which a run has timed out
\*   sentinel_printed_on: the sessions whose shell has run a command whose
\*       own stdout contains the sentinel text
\*   successes: per session, the runs that returned a CLIResult
NoAudit == [timed_out_on |-> {}, sentinel_printed_on |-> {}, successes |-> <<>>]

\* _BashSession.stop on session s: the error it raises (NoResult if none)
\* and the processes afterwards.  terminate() signals the shell.
Stop(s, sess, procs) ==
    IF ~sess[s]._started
    THEN [error |-> ToolError(NotStartedMessage), process |-> procs]
    ELSE IF procs[s].exited
    THEN [error |-> NoResult, process |-> procs]
    ELSE [error |-> NoResult,
          process |-> [procs EXCEPT ![s].signalled = TRUE]]

\* RunEntry without the check of _started
RunEntryNoStartCheck(s, command, sess, procs) ==
    IF procs[s].exited
    THEN [pc |-> "run_exited", result |-> NoResult, process |-> procs]
    ELSE IF sess[s]._timed_out
    THEN [pc |-> "done",
          result |-> ToolError(Message(TimedOutText, <<>>, <<>>)),
          process |-> procs]
    ELSE [pc |-> "polling", result |-> NoResult,
          process |-> [procs EXCEPT ![s].stdin = Append(@, command)]]

\* RunEntry without the check of returncode
RunEntryNoExitCheck(s, command, sess, procs) ==
    IF ~sess[s]._started
    THEN [pc |-> "done", result |-> ToolError(NotStartedMessage),
          process |-> procs]
    ELSE IF sess[s]._timed_out
    THEN [pc |-> "done",
          result |-> ToolError(Message(TimedOutText, <<>>, <<>>)),
          process |-> procs]
    ELSE [pc |-> "polling", result |-> NoResult,
          process |-> [procs EXCEPT ![s].stdin = Append(@, command)]]

\* RunEntry without the check of _timed_out
RunEntryNoPoisonCheck(s, command, sess, procs) ==
    IF ~sess[s]._started
    THEN [pc |-> "done", result |-> ToolError(NotStartedMessage),
          process |-> procs]
    ELSE IF procs[s].exited
    THEN [pc |-> "run_exited", result |-> NoResult, process |-> procs]
    ELSE [pc |-> "polling", result |-> NoResult,
          process |-> [procs EXCEPT ![s].stdin = Append(@, command)]]

\* _BashSession.run up to its first suspension: the precondition checks and
\* the write of the command line to stdin.
RunEntry(s, command, sess, procs) ==
    IF ~sess[s]._started
    THEN [pc |-> "done", result |-> ToolError(NotStartedMessage),
          process |-> procs]
    ELSE IF procs[s].exited
    THEN [pc |-> "run_exited", result |-> NoResult, process |-> procs]
    ELSE IF sess[s]._timed_out
    THEN [pc |-> "done",
          result |-> ToolError(Message(TimedOutText, <<>>, <<>>)),
          process |-> procs]
    ELSE [pc |-> "polling", result |-> NoResult,
          process |-> [procs EXCEPT ![s].stdin = Append(@, command)]]

\* Task c calls run(command) on session s, in a state where the sessions
\* are sess and the processes procs.
EnterRun(c, s, command, sess, procs) ==
    LET r == RunEntry(s, command, sess, procs) IN
    /\ task' = [task EXCEPT ![c] =
            [IdleTask EXCEPT !.pc = r.pc, !.command = command, !.self = s,
                             !.after_timeout = (s \in audit.timed_out_on),
                             !.found_exited = procs[s].exited,
                             !.found_unstarted = ~sess[s]._started,
                             !.wrote = (r.process[s].stdin # procs[s].stdin)]]
    /\ result' = [result EXCEPT ![c] = r.result]
    /\ process' = r.process
    /\ session' = sess

\* Task c's call ends with result (or raised error) res.
Finish(c, res) ==
    /\ task' = [task EXCEPT ![c].pc = "done", ![c].polled = FALSE,
                            ![c].output = <<>>, ![c].error = <<>>,
                            ![c].elapsed = 0]
    /\ result' = [result EXCEPT ![c] = res]

\* The TimeoutError handler's try block: the overflow files it writes.  fs is
\* what the file system does: "ok", or the first or the second
\* NamedTemporaryFile fails.
StdoutFile == "bash_stdout_*.log"
StderrFile == "bash_stderr_*.log"

LogsWritten(fs, output, error) ==
    CASE fs = "ok" -> {[path |-> StdoutFile, content |-> output],
                       [path |-> StderrFile, content |-> error]}
      [] fs = "stdout file fails" -> {}
      [] fs = "stderr file fails" -> {[path |-> StdoutFile, content |-> output]}

\* The exception the try block ends with: the ToolError naming the files
\* when both were written, else the file system's error.
TryBlock(fs, output, error) ==
    IF fs = "ok"
    THEN ToolError(Message(TimedOutText, <<StdoutFile, StderrFile>>,
                           <<Truncate(output), Truncate(error)>>))
    ELSE OtherError("OSError")

\* ExceptBlock that lets the error of the try block through
ExceptBlockReraises(raised, output, error) == raised

\* "except Exception:" around the try block: what leaves the handler when
\* the try block raised `raised`.
ExceptBlock(raised, output, error) ==
    IF IsException(raised)
    THEN ToolError(Message(TimedOutText, <<>>,
                           <<Truncate(output), Truncate(error)>>))
    ELSE raised

\* "except TimeoutError:" as a whole.  output and error are the locals the
\* last poll assigned; they are unbound if no poll completed.
OnTimeout(fs, polled, output, error) ==
    IF ~polled
    THEN OtherError("UnboundLocalError")
    ELSE ExceptBlock(TryBlock(fs, output, error), output, error)

\* ClearBuffers that forgets the stderr buffer
ClearStdoutOnly(p) == [p EXCEPT !.stdout_buffer = <<>>]

\* The buffers after a successful run
ClearBuffers(p) == [p EXCEPT !.stdout_buffer = <<>>, !.stderr_buffer = <<>>]

\* RunResult that keeps the trailing newline of stdout
RunResultNoStrip(output, error) ==
    CLIResult(BeforeSentinel(output), StripNewline(error))

\* What a successful run returns from the buffers it polled
RunResult(output, error) ==
    CLIResult(StripNewline(BeforeSentinel(output)), StripNewline(error))

\* Whether the sleep that starts after `elapsed` ends before the deadline
\* of asyncio.timeout(self._timeout)
SleepCompletes(self, elapsed) == elapsed + self._output_delay < self._timeout

\* A clock that stands still during the sleep
AfterSleepClockStopped(self, elapsed) == elapsed

\* The time since the loop was entered, after one more sleep
AfterSleep(self, elapsed) == elapsed + self._output_delay

----------------------------------------------------------------------------
(* BashSessionManager.execute, called by bash_execute for request c *)

CanCall(c) == task[c].pc = "idle" /\ ncalls < MaxCalls

\* self._session = _BashSession(); await self._session.start()
ConstructAndStart(c, command, restart, procs) ==
    /\ Len(session) < MaxSessions
    /\ session' = Append(session, NewSession)
    /\ process' = Append(procs, NewProcess)
    /\ _session' = Len(session) + 1
    /\ audit' = [audit EXCEPT !.successes = Append(@, 0)]
    /\ task' = [task EXCEPT ![c] =
            [IdleTask EXCEPT !.pc = "spawning", !.command = command,
                             !.restart = restart,
                             !.starting = Len(session) + 1]]
    /\ result' = [result EXCEPT ![c] = NoResult]

\* execute(command, restart=True)
ExecuteRestart(c, command) ==
    /\ CanCall(c)
    /\ ncalls' = ncalls + 1
    /\ LET st == IF _session # 0
                 THEN Stop(_session, session, process)
                 ELSE [error |-> NoResult, process |-> process]
       IN IF st.error.kind # "none"
          THEN /\ task' = [task EXCEPT ![c] =
                      [IdleTask EXCEPT !.pc = "done", !.command = command,
                                       !.restart = TRUE]]
               /\ result' = [result EXCEPT ![c] = st.error]
               /\ UNCHANGED <<_session, session, process, audit>>
          ELSE ConstructAndStart(c, command, TRUE, st.process)
    /\ UNCHANGED <<tmpfiles, gvars, xvars>>

\* execute(command, restart=False)
ExecuteCommand(c, command) ==
    /\ CanCall(c)
    /\ ncalls' = ncalls + 1
    /\ IF _session = 0
       THEN ConstructAndStart(c, command, FALSE, process)
       ELSE IF command # None
       THEN /\ EnterRun(c, _session, command, session, process)
            /\ UNCHANGED <<_session, audit>>
       ELSE /\ task' = [task EXCEPT ![c] = [IdleTask EXCEPT !.pc = "done"]]
            /\ result' = [result EXCEPT ![c] = ToolError(NoCommandMessage)]
            /\ UNCHANGED <<_session, session, process, audit>>
    /\ UNCHANGED <<tmpfiles, gvars, xvars>>

\* create_subprocess_shell returns: start sets _started, and execute goes on
\* without suspending: the restart message, or run on self._session as it
\* is now.
SpawnDone(c) ==
    /\ task[c].pc = "spawning"
    /\ LET s == task[c].starting
           sess == [session EXCEPT ![s]._started = TRUE]
           procs == [process EXCEPT ![s].spawned = TRUE]
       IN IF task[c].restart
          THEN /\ Finish(c, RestartedResult)
               /\ session' = sess
               /\ process' = procs
          ELSE IF task[c].command # None
          THEN EnterRun(c, _session, task[c].command, sess, procs)
          ELSE /\ Finish(c, ToolError(NoCommandMessage))
               /\ session' = sess
               /\ process' = procs
    /\ UNCHANGED <<_session, tmpfiles, ncalls, audit, gvars, xvars>>

\* create_subprocess_shell raises (fork or the demotion in preexec_fn
\* fails): the error leaves execute, the slot keeps the unstarted session.
SpawnFail(c) ==
    /\ task[c].pc = "spawning"
    /\ Finish(c, OtherError("OSError"))
    /\ UNCHANGED <<_session, session, process, tmpfiles, ncalls, audit, gvars, xvars>>

\* bash_execute answers the request with the result (200) or the error
\* (400, 500); the coroutine is gone.
Respond(c) ==
    /\ task[c].pc = "done"
    /\ task' = [task EXCEPT ![c] = IdleTask]
    /\ result' = [result EXCEPT ![c] = NoResult]
    /\ UNCHANGED <<_session, session, process, tmpfiles, ncalls, audit, gvars, xvars>>

\* run, after the sleep(0) of its "process has exited" branch
RunExitedReturn(c) ==
    /\ task[c].pc = "run_exited"
    /\ Finish(c, ToolResult("tool must be restarted",
                 <<"bash has exited with returncode",
                   ToString(process[task[c].self].returncode)>>))
    /\ UNCHANGED <<_session, session, process, tmpfiles, ncalls, audit, gvars, xvars>>

\* run: a poll sleep ends before the deadline; the buffers are read
PollWake(c) ==
    /\ task[c].pc = "polling"
    /\ SleepCompletes(session[task[c].self], task[c].elapsed)
    /\ LET s == task[c].self
           output == process[s].stdout_buffer
           error == process[s].stderr_buffer
       IN IF Contains(output, _sentinel)
          THEN /\ Finish(c, RunResult(output, error))
               /\ process' = [process EXCEPT ![s] = ClearBuffers(@)]
               /\ audit' = [audit EXCEPT !.successes[s] = @ + 1]
          ELSE /\ task' = [task EXCEPT ![c].polled = TRUE,
                                       ![c].output = output,
                                       ![c].error = error,
                                       ![c].elapsed =
                                            AfterSleep(session[s], @)]
               /\ UNCHANGED <<result, process, audit>>
    /\ UNCHANGED <<_session, session, tmpfiles, ncalls, gvars, xvars>>

\* run: the deadline falls during a poll sleep; the TimeoutError handler
PollTimeout(c, fs) ==
    /\ task[c].pc = "polling"
    /\ ~SleepCompletes(session[task[c].self], task[c].elapsed)
    /\ LET s == task[c].self
           logs == IF task[c].polled
                   THEN LogsWritten(fs, task[c].output, task[c].error)
                   ELSE {}
       IN
       /\ session' = [session EXCEPT ![s]._timed_out = TRUE]
       /\ tmpfiles' = tmpfiles \cup logs
       /\ task' = [task EXCEPT ![c].pc = "done", ![c].logs = logs]
       /\ result' = [result EXCEPT ![c] =
                OnTimeout(fs, task[c].polled, task[c].output, task[c].error)]
       /\ audit' = [audit EXCEPT !.timed_out_on = @ \cup {s}]
    /\ UNCHANGED <<_session, process, ncalls, gvars, xvars>>

----------------------------------------------------------------------------
(* /bin/bash, the process of session s *)

Running(s) == process[s].spawned /\ ~process[s].exited

\* The shell reads the next command line and runs the command
ShellRun(s) ==
    /\ Running(s)
    /\ process[s].phase = "read"
    /\ process[s].stdin # <<>>
    /\ LET e == CommandEffect(Head(process[s].stdin)) IN
       /\ process' = [process EXCEPT
            ![s].stdin = Tail(@),
            ![s].stdout_buffer = @ \o e.out,
            ![s].stderr_buffer = @ \o e.err,
            ![s].phase = IF e.exits THEN "read"
                         ELSE IF e.forks THEN "wait" ELSE "echo",
            ![s].child = e.forks,
            ![s].exited = e.exits]
       /\ audit' = IF Contains(e.out, _sentinel)
                   THEN [audit EXCEPT !.sentinel_printed_on = @ \cup {s}]
                   ELSE audit
    /\ UNCHANGED <<_session, session, task, result, tmpfiles, ncalls, gvars, xvars>>

\* ...; echo '<<exit>>'
ShellEcho(s) ==
    /\ Running(s)
    /\ process[s].phase = "echo"
    /\ process' = [process EXCEPT
            ![s].stdout_buffer = @ \o _sentinel \o <<NL>>,
            ![s].phase = "read"]
    /\ UNCHANGED <<_session, session, task, result, tmpfiles, ncalls, audit, gvars, xvars>>

\* The shell dies of the SIGTERM that terminate() sent
ProcessExit(s) ==
    /\ Running(s)
    /\ process[s].signalled
    /\ process' = [process EXCEPT ![s].exited = TRUE, ![s].returncode = -15]
    /\ UNCHANGED <<_session, session, task, result, tmpfiles, ncalls, audit, gvars, xvars>>

\* The command the shell started ends; a shell that waits for it goes on
ChildExit(s) ==
    /\ process[s].spawned
    /\ process[s].child
    /\ process' = [process EXCEPT
            ![s].child = FALSE,
            ![s].phase = IF @ = "wait" THEN "echo" ELSE @]
    /\ UNCHANGED <<_session, session, task, result, tmpfiles, ncalls, audit, gvars, xvars>>

----------------------------------------------------------------------------
(* _BashSession used directly: start, stop and run called on one object,  *)
(* one call at a time                                                      *)

NoneResult == [kind |-> "NoneType"]

\* start without the check of _started
StartEntryAlwaysSpawns(s, sess) == "spawning"

\* _BashSession.start up to its first suspension
StartEntry(s, sess) ==
    IF sess[s]._started THEN "start_yield" ELSE "spawning"

\* start()
CallStart(c, s) ==
    /\ CanCall(c)
    /\ ncalls' = ncalls + 1
    /\ task' = [task EXCEPT ![c] =
            [IdleTask EXCEPT !.pc = StartEntry(s, session),
                             !.method = "start", !.starting = s]]
    /\ UNCHANGED <<_session, session, process, result, tmpfiles, audit, gvars, xvars>>

\* start, after the sleep(0) of its already-started branch
StartYieldReturn(c) ==
    /\ task[c].pc = "start_yield"
    /\ Finish(c, NoneResult)
    /\ UNCHANGED <<_session, session, process, tmpfiles, ncalls, audit, gvars, xvars>>

\* create_subprocess_shell returns: start stores the new process and sets
\* _started
StartSpawned(c) ==
    /\ task[c].pc = "spawning"
    /\ task[c].method = "start"
    /\ session' = [session EXCEPT ![task[c].starting]._started = TRUE]
    /\ process' = [process EXCEPT ![task[c].starting] =
                        [NewProcess EXCEPT !.spawned = TRUE]]
    /\ Finish(c, NoneResult)
    /\ UNCHANGED <<_session, tmpfiles, ncalls, audit, gvars, xvars>>

\* stop()
CallStop(c, s) ==
    /\ CanCall(c)
    /\ ncalls' = ncalls + 1
    /\ LET st == Stop(s, session, process) IN
       /\ task' = [task EXCEPT ![c] =
               [IdleTask EXCEPT !.pc = "done", !.method = "stop"]]
       /\ result' = [result EXCEPT ![c] =
               IF st.error.kind # "none" THEN st.error ELSE NoneResult]
       /\ process' = st.process
    /\ UNCHANGED <<_session, session, tmpfiles, audit, gvars, xvars>>

\* run(command)
CallRun(c, s, command) ==
    /\ CanCall(c)
    /\ ncalls' = ncalls + 1
    /\ EnterRun(c, s, command, session, process)
    /\ UNCHANGED <<_session, tmpfiles, audit, gvars, xvars>>

----------------------------------------------------------------------------
(* GradingRunner *)

\* What an external command can do: its exit code, whether subprocess.run's
\* timeout expired first, and what it wrote.
ExitCodes == {0, 1, 2}
Stdouts == {<<>>, <<"out", NL>>}
Stderrs == {<<>>, <<"err", NL>>}

Outcomes ==
    [rc : ExitCodes, timeout : {FALSE}, stdout : Stdouts, stderr : Stderrs]

\* A command run with timeout=1500 may also be killed at the deadline
TimedOutcomes ==
    Outcomes \cup
    [rc : {-9}, timeout : {TRUE}, stdout : {<<>>}, stderr : {<<>>}]

\* git apply, cp, git reset: only the exit code is looked at
PlainOutcomes ==
    [rc : {0, 1}, timeout : {FALSE}, stdout : {<<>>}, stderr : {<<>>}]

\* GradingRunner._format_junit_xml: the report of one stage.  A message is
\* the sequence of its parts, <<>> for None; failure is <<>> when no
\* <failure> element is written.
_format_junit_xml(test_name, failure_message, stdout, stderr) ==
    [name |-> test_name, tests |-> 1, failures |-> 1, errors |-> 0,
     skipped |-> 0,
     testcases |-> << [classname |-> test_name,
                       name |-> <<"test", test_name>>,
                       failure |-> IF failure_message # <<>>
                                   THEN failure_message ELSE <<>>] >>,
     system_out |-> <<stdout>>, system_err |-> <<stderr>>]

ValidationAssertions ==
    <<"BaselineCompiles", "TestPatchApplies", "TestPatchFailsTests",
      "GoldenPatchApplies", "GoldenPatchCompiles", "GoldenPatchPassesTests">>

\* The literal report validate_patches returns on success
ValidationReport ==
    [name |-> "PatchValidation", tests |-> 6, failures |-> 0, errors |-> 0,
     skipped |-> 0,
     testcases |-> [i \in 1..Len(ValidationAssertions) |->
                        [classname |-> "PatchValidation",
                         name |-> <<"test", ValidationAssertions[i]>>,
                         failure |-> <<>>]],
     system_out |-> <<>>, system_err |-> <<>>]

\* How a stage ends: the workflow goes on to stage `next`, returns
\* (success, {"junit": report}), or lets an exception propagate.
Continue(next) == [gpc |-> next, gresult |-> NoResult]
Return(success, report) ==
    [gpc |-> "returned",
     gresult |-> [kind |-> "result", success |-> success, junit |-> report]]
Raise(class) == [gpc |-> "raised", gresult |-> OtherError(class)]

\* Checked without check=True
CheckedIgnoresFailure(o, next) == Continue(next)

\* subprocess.run(..., check=True) of cp, git apply and git reset
Checked(o, next) ==
    IF o.rc # 0 THEN Raise("CalledProcessError") ELSE Continue(next)

\* run_grading: the build stage, after both reader threads were joined;
\* build_output holds the lines of both streams
BuildStageContinues(o, build_output) == Continue("test")

BuildStage(o, build_output) ==
    IF o.rc # 0
    THEN Return(FALSE, _format_junit_xml("AgentPatchCompiles",
                    <<"Agent patch compilation failed">>, build_output, <<>>))
    ELSE Continue("test")

\* run_tests
run_tests(o) ==
    IF o.rc # 0
    THEN Return(FALSE, _format_junit_xml("Tests", <<"Tests failed">>,
                                         o.stdout, o.stderr))
    ELSE Return(TRUE, _format_junit_xml("Tests", <<>>, o.stdout, o.stderr))

\* validate_patches: the baseline build (check=True, timeout=1500, and
\* CalledProcessError caught)
BaselineStageContinues(o) ==
    IF o.timeout THEN Raise("TimeoutExpired") ELSE Continue("apply_test")

BaselineStage(o) ==
    IF o.timeout
    THEN Raise("TimeoutExpired")
    ELSE IF o.rc # 0
    THEN Return(FALSE, _format_junit_xml("BaselineCompiles",
                    <<"Baseline compilation failed">>, o.stdout, o.stderr))
    ELSE Continue("apply_test")

\* validate_patches: the tests with the test patch alone
TestPatchStageContinues(o) == Continue("reset")

TestPatchStage(o) ==
    IF o.rc = 0
    THEN Return(FALSE, _format_junit_xml("TestPatchFailsTests",
                    <<"Test patch did not cause tests to fail">>,
                    o.stdout, o.stderr))
    ELSE Continue("reset")

\* validate_patches: the build with the golden and the test patch
GoldenBuildStage(o) ==
    IF o.timeout
    THEN Raise("TimeoutExpired")
    ELSE IF o.rc # 0
    THEN Return(FALSE, _format_junit_xml("GoldenPatchCompiles",
                    <<"Golden patch compilation failed">>, o.stdout, o.stderr))
    ELSE Continue("golden_test")

\* GoldenTestStage that takes any exit code for a pass
GoldenTestStageAlwaysPasses(o) == Return(TRUE, ValidationReport)

\* validate_patches: the tests with the golden and the test patch
GoldenTestStage(o) ==
    IF o.rc # 0
    THEN Return(FALSE, _format_junit_xml("GoldenPatchPassesTests",
                    <<"Golden patch did not fix tests (returncode=",
                      ToString(o.rc), ")">>,
                    o.stdout, o.stderr))
    ELSE Return(TRUE, ValidationReport)

\* The workspace is the set of its differences from the baseline commit.
\* A patch is the set of differences it makes: edits of tracked files, and
\* files it creates (untracked until committed).
TestPatches == {{"test.patch edits"}, {"test.patch edits", "test.patch new file"}}
GoldenPatch == {"golden.patch edits"}
Untracked == {"test.patch new file"}

\* git apply: all of the patch or nothing; it refuses a patch whose edits
\* are already in the tree or whose new file already exists
Applies(ws, patch) == ws \cap patch = {}
GitApply(ws, patch, o) == IF o.rc = 0 THEN ws \cup patch ELSE ws

\* git reset --hard: tracked files go back to the commit, untracked stay
GitResetHard(ws, o) == IF o.rc = 0 THEN ws \cap Untracked ELSE ws

\* The workflow runs external command op on the workspace, which becomes
\* ws; st says how the stage ends.
Stage(at, op, o, st, ws) ==
    /\ gpc = at
    /\ ops' = Append(ops, [op |-> op, rc |-> o.rc, timeout |-> o.timeout])
    /\ workspace' = ws
    /\ gpc' = st.gpc
    /\ gresult' = st.gresult
    /\ UNCHANGED <<workflow, test_patch, svars, xvars>>

\* POST /grade and POST /validate: a runner with a workspace of its own
GradeRequest(patch) ==
    /\ gpc = "idle"
    /\ workflow' = "run_grading"
    /\ test_patch' = patch
    /\ gpc' = "copy"
    /\ UNCHANGED <<ops, workspace, gresult, svars, xvars>>

ValidateRequest(patch) ==
    /\ gpc = "idle"
    /\ workflow' = "validate_patches"
    /\ test_patch' = patch
    /\ gpc' = "copy"
    /\ UNCHANGED <<ops, workspace, gresult, svars, xvars>>

\* run_grading, stage by stage.  The repository it copies holds the work
\* of the agent.
GradeCopy(o) ==
    /\ workflow = "run_grading"
    /\ Stage("copy", "cp -r", o, Checked(o, "apply_test"),
             IF o.rc = 0 THEN {"agent edits"} ELSE {})

GradeApplyTest(o) ==
    /\ workflow = "run_grading"
    /\ ~Applies(workspace, test_patch) => o.rc # 0
    /\ Stage("apply_test", "git apply test.patch", o, Checked(o, "build"),
             GitApply(workspace, test_patch, o))

\* the two reader threads append the lines of stdout and of stderr to
\* build_output in some order
GradeBuild(o, stdout_first) ==
    /\ workflow = "run_grading"
    /\ Stage("build", "lake build", o,
             BuildStage(o, IF stdout_first THEN o.stdout \o o.stderr
                                           ELSE o.stderr \o o.stdout),
             workspace)

GradeTest(o) ==
    /\ workflow = "run_grading"
    /\ Stage("test", "lake test", o, run_tests(o), workspace)

\* validate_patches, stage by stage
ValidateCopy(o) ==
    /\ workflow = "validate_patches"
    /\ Stage("copy", "cp -r", o, Checked(o, "baseline_build"), {})

ValidateBaselineBuild(o) ==
    /\ workflow = "validate_patches"
    /\ Stage("baseline_build", "lake build", o, BaselineStage(o), workspace)

ValidateApplyTest(o) ==
    /\ workflow = "validate_patches"
    /\ ~Applies(workspace, test_patch) => o.rc # 0
    /\ Stage("apply_test", "git apply test.patch", o, Checked(o, "test"),
             GitApply(workspace, test_patch, o))

ValidateTestPatch(o) ==
    /\ workflow = "validate_patches"
    /\ Stage("test", "lake test", o, TestPatchStage(o), workspace)

ValidateReset(o) ==
    /\ workflow = "validate_patches"
    /\ Stage("reset", "git reset --hard", o, Checked(o, "apply_golden"),
             GitResetHard(workspace, o))

ValidateApplyGolden(o) ==
    /\ workflow = "validate_patches"
    /\ ~Applies(workspace, GoldenPatch) => o.rc # 0
    /\ Stage("apply_golden", "git apply golden.patch", o,
             Checked(o, "apply_test_again"),
             GitApply(workspace, GoldenPatch, o))

ValidateApplyTestAgain(o) ==
    /\ workflow = "validate_patches"
    /\ ~Applies(workspace, test_patch) => o.rc # 0
    /\ Stage("apply_test_again", "git apply test.patch", o,
             Checked(o, "golden_build"),
             GitApply(workspace, test_patch, o))

ValidateGoldenBuild(o) ==
    /\ workflow = "validate_patches"
    /\ Stage("golden_build", "lake build", o, GoldenBuildStage(o), workspace)

ValidateGoldenTest(o) ==
    /\ workflow = "validate_patches"
    /\ Stage("golden_test", "lake test", o, GoldenTestStage(o), workspace)

\* grade_solution / validate_patches of server.py answer the request; the
\* runner and its workspace are not used again
GradingRespond ==
    /\ gpc \in {"returned", "raised"}
    /\ gpc' = "idle"
    /\ workflow' = "none"
    /\ ops' = <<>>
    /\ test_patch' = {}
    /\ workspace' = {}
    /\ gresult' = NoResult
    /\ UNCHANGED <<svars, xvars>>

----------------------------------------------------------------------------

FileSystem == {"ok", "stdout file fails", "stderr file fails"}

\* No Grade has been constructed
NoGrade == [subscores |-> <<>>, weights |-> <<>>, metadata |-> None]

----------------------------------------------------------------------------
(* Grade (server/spec.py).  A float is an integer number of 1/Scale: 1.0   *)
(* is Scale.  A product of two floats is a number of 1/(Scale*Scale).      *)

Scale == 4
Keys == {"Tests", "Style"}
Floats == -1..(Scale + 1)

\* The Grade objects: any two dicts of floats, and no metadata
Grades ==
    UNION {{[subscores |-> s, weights |-> w, metadata |-> None] :
                s \in [ks -> Floats], w \in [kw -> Floats]} :
           ks \in SUBSET Keys, kw \in SUBSET Keys}

Abs(x) == IF x < 0 THEN -x ELSE x

RECURSIVE Sum(_, _)
Sum(f, keys) ==
    IF keys = {} THEN 0
    ELSE LET k == CHOOSE x \in keys : TRUE
         IN f[k] + Sum(f, keys \ {k})

Values(d) == {d[k] : k \in DOMAIN d}
Min(S) == CHOOSE x \in S : \A y \in S : x <= y
Max(S) == CHOOSE x \in S : \A y \in S : x >= y

\* np.isclose(a, b) with numpy's defaults: |a - b| <= 1e-8 + 1e-5 * |b|
IsClose(a, b) == Abs(a - b) * 100000000 <= Scale + 1000 * Abs(b)

\* np.clip(x, lo, hi)
Clip(x, lo, hi) == IF x < lo THEN lo ELSE IF x > hi THEN hi ELSE x

\* sum([self.subscores[key] * self.weights[key] for key in ...])
WeightedSum(g) ==
    Sum([k \in DOMAIN g.subscores |-> g.subscores[k] * g.weights[k]],
        DOMAIN g.subscores)

ScoreValue(v) == [kind |-> "score", value |-> v]

\* Grade.score without the two asserts on the subscores
ScoreNoSubscoreAsserts(g) ==
    IF DOMAIN g.subscores # DOMAIN g.weights
    THEN OtherError("AssertionError")
    ELSE IF ~IsClose(Sum(g.weights, DOMAIN g.weights), Scale)
    THEN OtherError("AssertionError")
    ELSE ScoreValue(Clip(WeightedSum(g), 0, Scale * Scale))

\* Grade.score
GradeScore(g) ==
    IF DOMAIN g.subscores # DOMAIN g.weights
    THEN OtherError("AssertionError")
    ELSE IF ~IsClose(Sum(g.weights, DOMAIN g.weights), Scale)
    THEN OtherError("AssertionError")
    ELSE IF DOMAIN g.subscores = {}
    THEN OtherError("ValueError")
    ELSE IF ~(Min(Values(g.subscores)) >= 0)
    THEN OtherError("AssertionError")
    ELSE IF ~(Max(Values(g.subscores)) <= Scale)
    THEN OtherError("AssertionError")
    ELSE ScoreValue(Clip(WeightedSum(g), 0, Scale * Scale))

\* grade.score is read
ReadScore ==
    /\ score = NoResult
    /\ score' = GradeScore(grade)
    /\ UNCHANGED <<grade, build, svars, gvars>>

\* grade_problem builds the Grade of a /grade response
GradeProblem(success) ==
    /\ grade' = [subscores |-> [k \in {"Tests"} |->
                                    IF success THEN Scale ELSE 0],
                 weights |-> [k \in {"Tests"} |-> Scale],
                 metadata |-> "junit"]
    /\ score' = NoResult
    /\ UNCHANGED <<build, svars, gvars>>

----------------------------------------------------------------------------
(* run_grading's build stage in detail: the build process writes lines to  *)
(* two pipes of bounded capacity and blocks on a full pipe; two threads    *)
(* read them; the main thread joins the threads and waits for the process. *)

PipeCapacity == 1    \* lines a pipe holds
MaxLines == 3        \* lines the build process writes

Streams == {"stdout", "stderr"}

\* What a build writes: the stream of each of its lines, in order
Scripts == UNION {[1..n -> Streams] : n \in 0..MaxLines}

\* Line i of the script, as written to its stream
Lines(script) == [i \in 1..Len(script) |-> [stream |-> script[i], text |-> i]]

NoLine == [stream |-> None, text |-> 0]

\* subprocess.Popen has not been called
NoBuild ==
    [at |-> 0, script |-> <<>>, to_write |-> <<>>, exit_code |-> 0,
     exited |-> FALSE,
     pipe |-> [x \in Streams |-> <<>>],
     thread |-> [x \in Streams |-> "not started"],
     line |-> [x \in Streams |-> NoLine],
     build_output |-> <<>>, build_result_code |-> None]

\* The main thread that starts the second reader only when the first has
\* finished
MainStepsOneReaderAtATime ==
    <<[do |-> "start", x |-> "stdout"], [do |-> "join", x |-> "stdout"],
      [do |-> "start", x |-> "stderr"], [do |-> "join", x |-> "stderr"],
      [do |-> "wait", x |-> None]>>

\* The main thread after Popen: start both threads, join both, wait
MainSteps ==
    <<[do |-> "start", x |-> "stdout"], [do |-> "start", x |-> "stderr"],
      [do |-> "join", x |-> "stdout"], [do |-> "join", x |-> "stderr"],
      [do |-> "wait", x |-> None]>>

BuildVarsUnchanged == UNCHANGED <<grade, score, svars, gvars>>

\* build_process = subprocess.Popen(...); build_output = []
Popen(script, rc) ==
    /\ build = NoBuild
    /\ build' = [NoBuild EXCEPT !.at = 1, !.script = script,
                                !.to_write = Lines(script),
                                !.exit_code = rc]
    /\ BuildVarsUnchanged

\* The main thread's next statement
MainStep ==
    /\ build.at \in 1..Len(MainSteps)
    /\ LET st == MainSteps[build.at] IN
       CASE st.do = "start" ->
               build' = [build EXCEPT !.thread[st.x] = "reading",
                                      !.at = @ + 1]
         [] st.do = "join" ->
               /\ build.thread[st.x] = "finished"
               /\ build' = [build EXCEPT !.at = @ + 1]
         [] st.do = "wait" ->
               /\ build.exited
               /\ build' = [build EXCEPT !.build_result_code = build.exit_code,
                                         !.at = @ + 1]
    /\ BuildVarsUnchanged

\* The build process writes its next line, if the pipe has room
ProcWrite ==
    /\ build.at >= 1 /\ ~build.exited
    /\ build.to_write # <<>>
    /\ LET l == Head(build.to_write) IN
       /\ Len(build.pipe[l.stream]) < PipeCapacity
       /\ build' = [build EXCEPT !.pipe[l.stream] = Append(@, l),
                                 !.to_write = Tail(@)]
    /\ BuildVarsUnchanged

\* The build process has written everything: it exits, its pipes close
ProcExit ==
    /\ build.at >= 1 /\ ~build.exited
    /\ build.to_write = <<>>
    /\ build' = [build EXCEPT !.exited = TRUE]
    /\ BuildVarsUnchanged

\* for line in build_process.<x>: the next line is read
ReaderRead(x) ==
    /\ build.thread[x] = "reading"
    /\ build.pipe[x] # <<>>
    /\ build' = [build EXCEPT !.line[x] = Head(build.pipe[x]),
                              !.pipe[x] = Tail(@),
                              !.thread[x] = "appending"]
    /\ BuildVarsUnchanged

\* sys.stderr.write(line); build_output.append(line)
ReaderAppend(x) ==
    /\ build.thread[x] = "appending"
    /\ build' = [build EXCEPT !.build_output = Append(@, build.line[x]),
                              !.line[x] = NoLine,
                              !.thread[x] = "reading"]
    /\ BuildVarsUnchanged

\* for line in build_process.<x>: end of file, the thread ends
ReaderEOF(x) ==
    /\ build.thread[x] = "reading"
    /\ build.pipe[x] = <<>>
    /\ build.exited
    /\ build' = [build EXCEPT !.thread[x] = "finished"]
    /\ BuildVarsUnchanged

----------------------------------------------------------------------------

GradingIdle ==
    /\ gpc = "idle"
    /\ workflow = "none"
    /\ ops = <<>>
    /\ test_patch = {}
    /\ workspace = {}
    /\ gresult = NoResult

Init ==
    /\ _session = 0
    /\ session = <<>>
    /\ process = <<>>
    /\ task = [c \in Callers |-> IdleTask]
    /\ result = [c \in Callers |-> NoResult]
    /\ tmpfiles = {}
    /\ ncalls = 0
    /\ audit = NoAudit
    /\ GradingIdle
    /\ grade = NoGrade
    /\ score = NoResult
    /\ build = NoBuild

SessionStep ==
    \/ \E c \in Callers : Respond(c)
    \/ \E c \in Callers : SpawnDone(c)
    \/ \E c \in Callers : SpawnFail(c)
    \/ \E c \in Callers : RunExitedReturn(c)
    \/ \E c \in Callers : PollWake(c)
    \/ \E c \in Callers, fs \in FileSystem : PollTimeout(c, fs)
    \/ \E s \in 1..Len(session) : ShellRun(s)
    \/ \E s \in 1..Len(session) : ShellEcho(s)
    \/ \E s \in 1..Len(session) : ProcessExit(s)

\* The /bash endpoint: requests are handled as they come, concurrently
Next ==
    \/ \E c \in Callers, command \in {None, "echo hi"} :
            ExecuteRestart(c, command)
    \/ \E c \in Callers, command \in Commands \cup {None} :
            ExecuteCommand(c, command)
    \/ SessionStep

Spec == Init /\ [][Next]_vars

\* The same endpoint behind a client that sends one request at a time: a
\* request is issued only when no other is being handled.
NoCallInProgress == \A c \in Callers : task[c].pc = "idle"

NextSerial ==
    \/ \E c \in Callers, command \in {None, "echo hi"} :
            NoCallInProgress /\ ExecuteRestart(c, command)
    \/ \E c \in Callers, command \in Commands \cup {None} :
            NoCallInProgress /\ ExecuteCommand(c, command)
    \/ SessionStep

SpecSerial == Init /\ [][NextSerial]_vars

\* One _BashSession object in the hands of a caller that makes one call at
\* a time
SessionCommands == {"echo hi", "sleep 100", "exit"}

InitSession ==
    /\ _session = 0
    /\ session = <<NewSession>>
    /\ process = <<NewProcess>>
    /\ task = [c \in Callers |-> IdleTask]
    /\ result = [c \in Callers |-> NoResult]
    /\ tmpfiles = {}
    /\ ncalls = 0
    /\ audit = [NoAudit EXCEPT !.successes = <<0>>]
    /\ GradingIdle
    /\ grade = NoGrade
    /\ score = NoResult
    /\ build = NoBuild

NextSession ==
    \/ \E c \in Callers : NoCallInProgress /\ CallStart(c, 1)
    \/ \E c \in Callers : NoCallInProgress /\ CallStop(c, 1)
    \/ \E c \in Callers, command \in SessionCommands :
            NoCallInProgress /\ CallRun(c, 1, command)
    \/ \E c \in Callers : StartYieldReturn(c)
    \/ \E c \in Callers : StartSpawned(c)
    \/ \E c \in Callers : SpawnFail(c)
    \/ \E c \in Callers : Respond(c)
    \/ \E c \in Callers : RunExitedReturn(c)
    \/ \E c \in Callers : PollWake(c)
    \/ \E c \in Callers, fs \in FileSystem : PollTimeout(c, fs)
    \/ ShellRun(1)
    \/ ShellEcho(1)
    \/ ProcessExit(1)
    \/ ChildExit(1)

SpecSession == InitSession /\ [][NextSession]_vars

\* The event loop runs a task whose sleep is over or whose deadline has
\* passed
LoopRuns(c) == PollWake(c) \/ \E fs \in FileSystem : PollTimeout(c, fs)

SpecSessionFair == SpecSession /\ \A c \in Callers : WF_vars(LoopRuns(c))

\* One session whose poll interval and overall timeout are configured:
\* any interval up to one above the default, any timeout up to the default
Intervals == 1..(_output_delay + 1)
Timeouts == 1.._timeout

InitConfigured ==
    /\ _session = 0
    /\ \E d \in Intervals, tm \in Timeouts :
          session = <<[NewSession EXCEPT !._output_delay = d,
                                         !._timeout = tm]>>
    /\ process = <<NewProcess>>
    /\ task = [c \in Callers |-> IdleTask]
    /\ result = [c \in Callers |-> NoResult]
    /\ tmpfiles = {}
    /\ ncalls = 0
    /\ audit = [NoAudit EXCEPT !.successes = <<0>>]
    /\ GradingIdle
    /\ grade = NoGrade
    /\ score = NoResult
    /\ build = NoBuild

SpecConfigured == InitConfigured /\ [][NextSession]_vars

\* One session, one caller, and commands that print about as much as the
\* preview of a timeout error holds
PreviewCommands ==
    {"yes | head -c 9999", "yes | head -c 10000", "yes | head -c 10001",
     "yes | head -c 10000 >&2", "yes | head -c 10001 >&2",
     "yes | head -c 10000; yes | head -c 10001 >&2",
     "yes | head -c 10001; yes | head -c 9999 >&2"}

NextPreview ==
    \/ NoCallInProgress /\ CallStart(1, 1)
    \/ \E command \in PreviewCommands :
            NoCallInProgress /\ CallRun(1, 1, command)
    \/ StartYieldReturn(1)
    \/ StartSpawned(1)
    \/ Respond(1)
    \/ PollWake(1)
    \/ \E fs \in FileSystem : PollTimeout(1, fs)
    \/ ShellRun(1)
    \/ ShellEcho(1)

SpecPreview == InitSession /\ [][NextPreview]_vars

----------------------------------------------------------------------------
(* Properties of _BashSession and BashSessionManager *)

TimedOutPrecheckError == ToolError(Message(TimedOutText, <<>>, <<>>))

MustRestart(r) == r.kind = "ToolResult" /\ r.system = "tool must be restarted"

\* Task c's call has ended and it had called run
RanRun(c) == task[c].pc = "done" /\ task[c].self # 0

\* C1, as claimed: once a run on a session has timed out, every later run on
\* that session raises the timeout error and writes nothing to stdin,
\* whether the process is still alive or has exited.
C1_PoisonedRunRaisesTimeout ==
    \A c \in Callers :
        (RanRun(c) /\ task[c].after_timeout) =>
            /\ result[c] = TimedOutPrecheckError
            /\ ~task[c].wrote

\* C1, amended: once a run on a session has timed out, no later run on that
\* session writes to stdin or polls; it raises the timeout error if the
\* process is still alive, and returns the "tool must be restarted" result
\* if the process has exited.
C1_PoisonedRunNeverWrites ==
    \A c \in Callers :
        (task[c].self # 0 /\ task[c].after_timeout) =>
            /\ ~task[c].wrote
            /\ task[c].pc # "polling"
            /\ task[c].pc = "done" =>
                    IF task[c].found_exited
                    THEN MustRestart(result[c])
                    ELSE result[c] = TimedOutPrecheckError

C1_Witness ==
    \E c \in Callers :
        /\ RanRun(c) /\ task[c].after_timeout
        /\ ~process[task[c].self].exited
        /\ result[c] = TimedOutPrecheckError
        /\ process[task[c].self].stdin # <<>>

\* C2: when run times out and both overflow files were written, the error
\* that reaches the caller names both files and carries both previews.
C2_TimeoutErrorNamesLogs ==
    \A c \in Callers :
        (task[c].pc = "done"
            /\ {f.path : f \in task[c].logs} = {StdoutFile, StderrFile}) =>
            /\ result[c].kind = "ToolError"
            /\ result[c].message.text = TimedOutText
            /\ result[c].message.paths = <<StdoutFile, StderrFile>>
            /\ Len(result[c].message.previews) = 2

\* C3: a restart whose spawn did not fail returns the restart message from
\* every state of the slot, and the slot then holds a started, unpoisoned
\* session.
C3_RestartAlwaysRestarts ==
    \A c \in Callers :
        (task[c].pc = "done" /\ task[c].restart
            /\ result[c].kind # "OSError") =>
            /\ result[c] = RestartedResult
            /\ _session = task[c].starting
            /\ session[_session]._started
            /\ ~session[_session]._timed_out

\* The stdout the shell produces for a command, less one trailing newline
NaturalOutput(command) == StripNewline(CommandEffect(command).out)

Succeeded(c) == RanRun(c) /\ result[c].kind = "CLIResult"

\* C4, as claimed: a completed run of a command whose text does not spell
\* the sentinel returns exactly the command's stdout (less one trailing
\* newline), free of the sentinel.
C4_OutputIsCommandStdout ==
    \A c \in Callers :
        (Succeeded(c) /\ ~CommandEffect(task[c].command).literal) =>
            /\ result[c].output = NaturalOutput(task[c].command)
            /\ ~Contains(result[c].output, _sentinel)

\* C4, amended: on a session whose shell has not printed the sentinel text
\* as part of a command's own stdout (the command just run included), a
\* completed run returns exactly the command's stdout, less one trailing
\* newline, free of the sentinel.
C4_OutputIsCommandStdoutUnlessPrinted ==
    \A c \in Callers :
        (Succeeded(c) /\ task[c].self \notin audit.sentinel_printed_on) =>
            /\ result[c].output = NaturalOutput(task[c].command)
            /\ ~Contains(result[c].output, _sentinel)

\* the second successful run of a session returned "hi" for "echo hi"
C4_Witness ==
    \E c \in Callers :
        /\ Succeeded(c)
        /\ task[c].self \notin audit.sentinel_printed_on
        /\ audit.successes[task[c].self] >= 2
        /\ task[c].command = "echo hi"
        /\ result[c].output = <<"hi">>

\* C5: the step in which a run returns a CLIResult leaves both buffers of
\* its session empty.
C5_BuffersEmptyAfterSuccess ==
    [][\A c \in Callers :
        (task[c].pc = "polling" /\ task'[c].pc = "done"
            /\ result'[c].kind = "CLIResult") =>
            /\ process'[task[c].self].stdout_buffer = <<>>
            /\ process'[task[c].self].stderr_buffer = <<>>]_vars

\* a second successful run has returned stderr text and the buffers are empty
C5_Witness ==
    \E c \in Callers :
        /\ Succeeded(c)
        /\ audit.successes[task[c].self] >= 2
        /\ result[c].error # <<>>
        /\ process[task[c].self].stdout_buffer = <<>>
        /\ process[task[c].self].stderr_buffer = <<>>

\* Task c's call has ended and was execute() with neither restart nor command
NoCommandCall(c) ==
    task[c].pc = "done" /\ task[c].command = None /\ ~task[c].restart

FoundExited(tk) ==
    tk.self # 0 /\ tk.found_exited /\ ~tk.found_unstarted

\* C12: run on a started session whose process has exited writes nothing to
\* stdin and changes nothing of the session or its process, neither when it
\* is entered nor while it yields; it then returns (does not raise) the
\* result with system "tool must be restarted" and an error naming the
\* return code.
C12_ExitedRunReturnsMustRestart ==
    [][\A c \in Callers :
        /\ (task[c].pc = "idle" /\ FoundExited(task'[c])) =>
                /\ task'[c].pc = "run_exited"
                /\ ~task'[c].wrote
                /\ session' = session
                /\ process' = process
        /\ (task[c].pc = "run_exited") =>
                /\ FoundExited(task[c])
                /\ session'[task[c].self] = session[task[c].self]
                /\ process'[task[c].self] = process[task[c].self]
                /\ task'[c].pc \in {"run_exited", "done"}
                /\ task'[c].pc = "done" =>
                      /\ result'[c].kind = "ToolResult"
                      /\ result'[c].system = "tool must be restarted"
                      /\ result'[c].error =
                            <<"bash has exited with returncode",
                              ToString(process[task[c].self].returncode)>>]_vars

\* run has returned "tool must be restarted" for a shell that had exited
C12_Witness ==
    \E c \in Callers :
        /\ RanRun(c) /\ FoundExited(task[c])
        /\ MustRestart(result[c])
        /\ process[task[c].self].exited
        /\ process[task[c].self].stdin = <<>>

\* C14: when run times out and one of the two overflow files could not be
\* written, the step marks the session poisoned and raises the timeout
\* ToolError carrying the truncated stdout and stderr the last poll read and
\* no path; the error of the file system never reaches the caller.
C14_StorageFailureKeepsTimeout ==
    [][\A c \in Callers :
        (task[c].pc = "polling" /\ task'[c].pc = "done"
            /\ result'[c].kind # "CLIResult"
            /\ Cardinality(task'[c].logs) < 2) =>
            /\ session'[task[c].self]._timed_out
            /\ result'[c].kind = "ToolError"
            /\ result'[c].message.text = TimedOutText
            /\ result'[c].message.paths = <<>>
            /\ result'[c].message.previews =
                    <<Truncate(task[c].output), Truncate(task[c].error)>>]_vars

\* the stderr file failed after the stdout file was written, and the caller
\* got the timeout error with the preview of what "echo hi" had printed
C14_Witness ==
    \E c \in Callers :
        /\ RanRun(c)
        /\ {f.path : f \in task[c].logs} = {StdoutFile}
        /\ session[task[c].self]._timed_out
        /\ result[c].kind = "ToolError"
        /\ result[c].message.text = TimedOutText
        /\ result[c].message.paths = <<>>
        /\ result[c].message.previews = << <<"hi", NL>>, <<>> >>

\* Task c makes a call of stop in this step
StopStep(c) == task[c].pc = "idle" /\ task'[c].method = "stop"

\* C16: stop on a never-started session raises the usage error; stop on a
\* session whose process has exited changes nothing; any other stop sends
\* the termination signal to the shell and to the command the shell is
\* running in its process group.
C16_StopSignalsProcessGroup ==
    [][\A c \in Callers : StopStep(c) =>
        /\ ~session[1]._started =>
              (result'[c] = ToolError(NotStartedMessage)
               /\ process' = process /\ session' = session)
        /\ (session[1]._started /\ process[1].exited) =>
              (result'[c] = NoneResult
               /\ process' = process /\ session' = session)
        /\ (session[1]._started /\ ~process[1].exited) =>
              /\ result'[c] = NoneResult
              /\ process'[1].signalled
              /\ process[1].child => process'[1].child_signalled]_vars

\* Task c makes a call of start on a started session in this step
StartAgainStep(c) ==
    /\ task[c].pc = "idle" /\ task'[c].method = "start"
    /\ session[task'[c].starting]._started

\* C17: start on an already-started session spawns nothing: neither the
\* call nor its return after the yield changes the process (handle, pipes,
\* buffers) or the session's flags, and it returns None; whatever was
\* called on the session before.
C17_StartIsIdempotent ==
    [][\A c \in Callers :
        /\ StartAgainStep(c) =>
              /\ task'[c].pc = "start_yield"
              /\ process' = process /\ session' = session
        /\ task[c].pc = "start_yield" =>
              /\ session' = session
              /\ task'[c].pc = "done" =>
                    (process' = process /\ result'[c] = NoneResult)
              /\ task'[c].pc \in {"start_yield", "done"}]_vars

\* start has returned on a poisoned session that holds unread output
C17_Witness ==
    \E c \in Callers :
        /\ task[c].pc = "done" /\ task[c].method = "start"
        /\ result[c] = NoneResult
        /\ session[1]._timed_out
        /\ process[1].stdout_buffer # <<>>
        /\ ncalls >= 3

TimeoutRaised(r) == r.kind = "ToolError" /\ r.message.text = TimedOutText

IsPreviewOf(preview, text) ==
    IF Len(text) <= PreviewLimit
    THEN preview = text
    ELSE /\ Len(preview) = PreviewLimit + 1
         /\ \A i \in 1..PreviewLimit : preview[i] = text[i]
         /\ preview[PreviewLimit + 1] = "<response clipped>"

\* Task c's run has raised the timeout error with previews of what it read
TimedOutWithPreviews(c) ==
    /\ RanRun(c) /\ TimeoutRaised(result[c])
    /\ Len(result[c].message.previews) = 2

\* C22: the previews in the error of a run that timed out are, for stdout
\* and for stderr each on its own, the whole text the last poll read when
\* it has at most 10000 characters (exactly 10000 included), and else its
\* first 10000 characters followed by "<response clipped>".
C22_PreviewClipsAboveLimit ==
    \A c \in Callers :
        TimedOutWithPreviews(c) =>
            /\ IsPreviewOf(result[c].message.previews[1], task[c].output)
            /\ IsPreviewOf(result[c].message.previews[2], task[c].error)

\* a timeout with exactly 10000 characters of stdout, kept whole, and 10001
\* of stderr, clipped
C22_Witness ==
    \E c \in Callers :
        /\ TimedOutWithPreviews(c)
        /\ Len(task[c].output) = PreviewLimit
        /\ Len(task[c].error) = PreviewLimit + 1
        /\ result[c].message.previews[1] = task[c].output
        /\ Len(result[c].message.previews[2]) = PreviewLimit + 1
        /\ result[c].message.previews[2] # task[c].error

\* Task c's run entered the poll loop and the session is poisoned since
TimedOutRun(c) ==
    /\ RanRun(c) /\ task[c].wrote /\ ~task[c].after_timeout
    /\ session[task[c].self]._timed_out

\* C23: whatever the poll interval and the overall timeout are, a timeout
\* shorter than one interval included, a run that times out raises the
\* timeout ToolError and no other exception.
C23_TimeoutAlwaysToolError ==
    \A c \in Callers : TimedOutRun(c) => TimeoutRaised(result[c])

\* Another call than c's is suspended inside start of session s
StartPending(c, s) ==
    \E d \in Callers \ {c} : task[d].pc = "spawning" /\ task[d].starting = s

\* C24: however concurrent execute calls interleave, no call enters run on
\* a session, and no restart calls stop on a session, while another call is
\* still suspended inside that session's start.
C24_NoUseBeforeStartCompletes ==
    [][\A c \in Callers :
        /\ (task[c].self = 0 /\ task'[c].self # 0) =>
                ~StartPending(c, task'[c].self)
        /\ (task[c].pc = "idle" /\ task'[c].restart /\ _session # 0) =>
                ~StartPending(c, _session)]_vars

\* Task c's call has ended and was execute(command, restart=True)
RestartWithCommand(c) ==
    task[c].pc = "done" /\ task[c].restart /\ task[c].command # None

\* C25: execute with restart=True and a command returns the restart message
\* (no output, no error) from every state of the slot, a spawn the system
\* refuses aside; the call never enters run and the command is in no
\* shell's stdin: the new session's stdin is empty.
C25_RestartIgnoresCommand ==
    \A c \in Callers :
        (RestartWithCommand(c) /\ result[c].kind # "OSError") =>
            /\ result[c] = RestartedResult
            /\ task[c].self = 0 /\ ~task[c].wrote
            /\ task[c].starting # 0
            /\ process[task[c].starting].stdin = <<>>

\* The tasks that are inside run on session s
InRun(s) == {c \in Callers : task[c].self = s
                             /\ task[c].pc \in {"polling", "run_exited"}}

\* C10: at most one run is in flight on a session at any time.
C10_AtMostOneRunInFlight ==
    \A s \in 1..Len(session) : Cardinality(InRun(s)) <= 1

----------------------------------------------------------------------------
(* The grading endpoints alone *)

NextGrading ==
    \/ \E patch \in TestPatches : GradeRequest(patch)
    \/ \E patch \in TestPatches : ValidateRequest(patch)
    \/ GradingRespond
    \/ \E o \in PlainOutcomes : GradeCopy(o)
    \/ \E o \in PlainOutcomes : GradeApplyTest(o)
    \/ \E o \in Outcomes, stdout_first \in BOOLEAN : GradeBuild(o, stdout_first)
    \/ \E o \in Outcomes : GradeTest(o)
    \/ \E o \in PlainOutcomes : ValidateCopy(o)
    \/ \E o \in TimedOutcomes : ValidateBaselineBuild(o)
    \/ \E o \in PlainOutcomes : ValidateApplyTest(o)
    \/ \E o \in Outcomes : ValidateTestPatch(o)
    \/ \E o \in PlainOutcomes : ValidateReset(o)
    \/ \E o \in PlainOutcomes : ValidateApplyGolden(o)
    \/ \E o \in PlainOutcomes : ValidateApplyTestAgain(o)
    \/ \E o \in TimedOutcomes : ValidateGoldenBuild(o)
    \/ \E o \in Outcomes : ValidateGoldenTest(o)

SpecGrading == Init /\ [][NextGrading]_vars

----------------------------------------------------------------------------
(* Properties of GradingRunner *)

OpsOf(op) == SelectSeq(ops, LAMBDA x : x.op = op)
Builds == OpsOf("lake build")
Tests == OpsOf("lake test")
OpNames == [i \in 1..Len(ops) |-> ops[i].op]
IsPrefix(s, u) == Len(s) <= Len(u) /\ s = SubSeq(u, 1, Len(s))

Returned == gpc = "returned"
FailedAs(stage) ==
    /\ Returned
    /\ ~gresult.success
    /\ gresult.junit.name = stage
    /\ Len(gresult.junit.testcases) = 1
    /\ gresult.junit.testcases[1].failure # <<>>

BaselineBuilt == Len(Builds) >= 1 /\ Builds[1].rc = 0
TestPatchFailed == Len(Tests) >= 1 /\ Tests[1].rc # 0
GoldenBuilt == Len(Builds) >= 2 /\ Builds[2].rc = 0
GoldenPassed == Len(Tests) >= 2 /\ Tests[2].rc = 0

FirstStageNotMet ==
    IF ~BaselineBuilt THEN "BaselineCompiles"
    ELSE IF ~TestPatchFailed THEN "TestPatchFailsTests"
    ELSE IF ~GoldenBuilt THEN "GoldenPatchCompiles"
    ELSE "GoldenPatchPassesTests"

SixAssertionsPassed(report) ==
    /\ report.tests = 6 /\ report.failures = 0
    /\ Len(report.testcases) = 6
    /\ \A i \in 1..6 :
          /\ report.testcases[i].name = <<"test", ValidationAssertions[i]>>
          /\ report.testcases[i].failure = <<>>

\* C6: validate_patches returns success, with the six assertions reported
\* passed, exactly when the baseline build exited 0, the tests exited nonzero
\* with the test patch, the build with both patches exited 0 and the tests
\* then exited 0; any other result it returns is the failure named after the
\* first of these stages, in this order, that was not met.
C6_ValidateVerdict ==
    (workflow = "validate_patches" /\ Returned) =>
        /\ gresult.success <=>
              (BaselineBuilt /\ TestPatchFailed /\ GoldenBuilt /\ GoldenPassed)
        /\ gresult.success => SixAssertionsPassed(gresult.junit)
        /\ ~gresult.success => FailedAs(FirstStageNotMet)

C6_Witness ==
    /\ workflow = "validate_patches" /\ Returned /\ gresult.success
    /\ Len(ops) = 9

AppliedOrTested ==
    \E i \in 1..Len(ops) :
        ops[i].op \in {"git apply test.patch", "git apply golden.patch",
                       "lake test"}

BaselineBuildFailed ==
    /\ workflow = "validate_patches"
    /\ Len(Builds) >= 1 /\ Builds[1].rc # 0 /\ ~Builds[1].timeout

\* C7: in validate_patches, when the baseline build exits nonzero the
\* workflow fails as BaselineCompiles, no patch is ever applied and no test
\* is ever run.
C7_BaselineFailureStopsEverything ==
    BaselineBuildFailed =>
        /\ FailedAs("BaselineCompiles")
        /\ ~AppliedOrTested
        /\ workspace = {}
        /\ OpNames = <<"cp -r", "lake build">>

C7_Witness == BaselineBuildFailed /\ FailedAs("BaselineCompiles")

TestPatchPassedTests ==
    /\ workflow = "validate_patches"
    /\ Len(Tests) >= 1 /\ Tests[1].rc = 0

\* C8: in validate_patches, when the tests exit 0 with the test patch the
\* workflow fails as TestPatchFailsTests; the golden patch is never applied,
\* the workspace is never reset and no further build or test is run.
C8_TestPatchPassStopsEverything ==
    TestPatchPassedTests =>
        /\ FailedAs("TestPatchFailsTests")
        /\ OpNames = <<"cp -r", "lake build", "git apply test.patch",
                       "lake test">>
        /\ workspace \cap GoldenPatch = {}
        /\ workspace = test_patch

C8_Witness == TestPatchPassedTests /\ FailedAs("TestPatchFailsTests")

\* C9: run_grading runs copy, apply test patch, build and test in this
\* order, each at most once; a nonzero build exit gives the failure
\* AgentPatchCompiles and the tests are not run; else the result is the
\* failure Tests when the tests exit nonzero and success when they exit 0.
C9_GradingOrderAndVerdict ==
    workflow = "run_grading" =>
        /\ IsPrefix(OpNames, <<"cp -r", "git apply test.patch",
                               "lake build", "lake test">>)
        /\ (Len(Builds) = 1 /\ Builds[1].rc # 0) =>
              (FailedAs("AgentPatchCompiles") /\ Len(Tests) = 0)
        /\ Returned => (Len(Builds) = 1 /\
                        (Builds[1].rc = 0 => Len(Tests) = 1))
        /\ (Len(Tests) = 1 /\ Tests[1].rc # 0) =>
              (FailedAs("Tests")
               /\ gresult.junit.testcases[1].failure = <<"Tests failed">>)
        /\ (Len(Tests) = 1 /\ Tests[1].rc = 0) =>
              /\ Returned /\ gresult.success
              /\ gresult.junit.name = "Tests"
              /\ gresult.junit.testcases[1].failure = <<>>

C9_Witness ==
    /\ workflow = "run_grading" /\ Returned /\ gresult.success
    /\ Len(ops) = 4

CopyOrApply ==
    {"cp -r", "git apply test.patch", "git apply golden.patch"}

\* C18: when the workspace copy or any application of a patch exits
\* nonzero, in run_grading or in validate_patches, the workflow raises
\* (nothing is returned) and that command is the last one it runs.
C18_CopyOrApplyFailureIsFatal ==
    \A i \in 1..Len(ops) :
        (ops[i].op \in CopyOrApply /\ ops[i].rc # 0) =>
            /\ i = Len(ops)
            /\ gpc = "raised"
            /\ gresult.kind = "CalledProcessError"

\* the second application of the test patch failed in validate_patches
C18_Witness ==
    /\ workflow = "validate_patches"
    /\ Len(ops) = 7
    /\ ops[7].op = "git apply test.patch" /\ ops[7].rc # 0
    /\ gpc = "raised"

\* C19: in validate_patches, once the hard reset has succeeded the
\* workspace does not differ from the baseline, whatever the test patch had
\* changed or added; the golden patch is applied to that tree.
C19_ResetRestoresBaseline ==
    (workflow = "validate_patches" /\ gpc = "apply_golden") =>
        workspace = {}

\* The test-case entries of a report that carry a failure block
FailureBlocks(report) ==
    {i \in 1..Len(report.testcases) : report.testcases[i].failure # <<>>}

\* C15: in every report returned, the failures count of the suite is the
\* number of test cases that carry a failure block; the report of a passing
\* stage has failures = 0 and no failure block.
C15_FailuresCountMatchesBlocks ==
    Returned =>
        /\ gresult.junit.failures = Cardinality(FailureBlocks(gresult.junit))
        /\ gresult.success =>
              (gresult.junit.failures = 0 /\ FailureBlocks(gresult.junit) = {})

----------------------------------------------------------------------------
(* Grade.score on any Grade *)

InitScore ==
    /\ _session = 0
    /\ session = <<>>
    /\ process = <<>>
    /\ task = [c \in Callers |-> IdleTask]
    /\ result = [c \in Callers |-> NoResult]
    /\ tmpfiles = {}
    /\ ncalls = 0
    /\ audit = NoAudit
    /\ GradingIdle
    /\ grade \in Grades
    /\ score = NoResult
    /\ build = NoBuild

NextScore ==
    \/ ReadScore
    \/ \E success \in BOOLEAN : GradeProblem(success)

SpecScore == InitScore /\ [][NextScore]_vars

WeightsSumToOne(g) == Sum(g.weights, DOMAIN g.weights) = Scale
SubscoresInRange(g) == \A k \in DOMAIN g.subscores :
                          0 <= g.subscores[k] /\ g.subscores[k] <= Scale
SameKeys(g) == DOMAIN g.subscores = DOMAIN g.weights
PassesChecks(g) == WeightsSumToOne(g) /\ SubscoresInRange(g) /\ SameKeys(g)

Rejected == score.kind = "AssertionError"

\* C13, as claimed: score is rejected when the weights do not sum to 1, a
\* subscore is outside [0,1] or the key sets differ; for every other Grade
\* the score is the weighted sum of the subscores and lies in [0,1].
C13_ScoreIsWeightedSum ==
    score # NoResult =>
        /\ ~PassesChecks(grade) => Rejected
        /\ PassesChecks(grade) =>
              /\ score.kind = "score"
              /\ score.value = WeightedSum(grade)
              /\ 0 <= score.value /\ score.value <= Scale * Scale

\* C13, amended: the same rejections; for every other Grade the score lies
\* in [0,1] and is the weighted sum where that lies in [0,1], 0 where it is
\* below and 1 where it is above; it is the weighted sum whenever no weight
\* is negative.
C13_ScoreIsClippedWeightedSum ==
    score # NoResult =>
        /\ ~PassesChecks(grade) => Rejected
        /\ PassesChecks(grade) =>
              /\ score.kind = "score"
              /\ 0 <= score.value /\ score.value <= Scale * Scale
              /\ WeightedSum(grade) < 0 => score.value = 0
              /\ WeightedSum(grade) > Scale * Scale =>
                    score.value = Scale * Scale
              /\ WeightedSum(grade) \in 0..(Scale * Scale) =>
                    score.value = WeightedSum(grade)
              /\ (\A k \in DOMAIN grade.weights : grade.weights[k] >= 0) =>
                    score.value = WeightedSum(grade)

\* a Grade of two keys with unequal weights was scored strictly inside (0,1)
C13_Witness ==
    /\ score.kind = "score"
    /\ DOMAIN grade.weights = Keys
    /\ grade.weights["Tests"] # grade.weights["Style"]
    /\ score.value = WeightedSum(grade)
    /\ 0 < score.value /\ score.value < Scale * Scale

----------------------------------------------------------------------------
(* The build stage of run_grading, thread by thread *)

BuildRuns ==
    \/ MainStep
    \/ ProcWrite
    \/ ProcExit
    \/ \E x \in Streams : ReaderRead(x)
    \/ \E x \in Streams : ReaderAppend(x)
    \/ \E x \in Streams : ReaderEOF(x)

NextBuild ==
    \/ \E script \in Scripts, rc \in ExitCodes : Popen(script, rc)
    \/ BuildRuns

\* The operating system runs every process and thread that can run
SpecBuild == Init /\ [][NextBuild]_vars /\ WF_vars(BuildRuns)

BuildStarted == build.at >= 1
BuildWaited == build.at = Len(MainSteps) + 1

\* The lines of stream x in a sequence of lines
OfStream(lines, x) == SelectSeq(lines, LAMBDA l : l.stream = x)

\* C20: with bounded pipes and a build that blocks on a full pipe, once the
\* build process is started the main thread gets past wait (both readers
\* have ended and the process has exited); wait has then returned the exit
\* code, and build_output holds the lines of each stream, each once, in the
\* order the build wrote them.
C20_ReadersLetBuildFinish ==
    /\ BuildStarted ~> BuildWaited
    /\ [](BuildWaited =>
            /\ build.build_result_code = build.exit_code
            /\ \A x \in Streams : build.thread[x] = "finished"
            /\ Len(build.build_output) = Len(build.script)
            /\ \A x \in Streams :
                  OfStream(build.build_output, x) =
                      OfStream(Lines(build.script), x))

\* a build that wrote more lines to stderr than the pipe holds, and one to
\* stdout in between, was waited for
C20_Witness ==
    /\ BuildWaited
    /\ build.script = <<"stderr", "stdout", "stderr">>
    /\ Len(OfStream(build.build_output, "stderr")) > PipeCapacity
    /\ build.build_output[1].stream = "stdout"

====
